---- MODULE Spec2Model ----
(***************************************************************************)
(* Model of the Designer Canvas scene editor                               *)
(* (frontend/src/components/CanvasPage.tsx).                               *)
(*                                                                         *)
(* Scene coordinates (x, y, width, height, pointer positions in the scene) *)
(* are kept in quarters of a pixel, Px units to the pixel; natural image   *)
(* sizes, screen positions and the export canvas are whole pixels.  The    *)
(* inputs are drawn from sets on which the arithmetic of the handlers is   *)
(* exact in these units.  The zoom factor is kept in thousandths.          *)
(***************************************************************************)
EXTENDS Integers, Sequences, FiniteSets, TLC

(* ----------------------------- constants ----------------------------- *)

CANVAS_DIMENSION == 4000
MIN_ITEM_SIZE == 48
Px == 4
ZoomUnit == 1000
MAX_ZOOM == 2000
MIN_ZOOM == 250
ZOOM_STEP == 100
MaxInitialWidth == 320
padding == 32

\* the scene constants in scene units
SceneExtent == CANVAS_DIMENSION * Px

MinSize == MIN_ITEM_SIZE * Px

(* ------------------------------- bounds ------------------------------ *)

\* image files accepted over one behaviour (object URLs created)
MaxUrls == 2
\* files in one selection of the file picker
MaxFiles == 2
\* upload batches whose decoding is in flight at the same time
MaxBatches == 1
\* the same, in the scenario of overlapping batches
MaxOverlap == 2
\* GET /train/status requests in flight at the same time
MaxPolls == 3
\* reorder operations stop when a zIndex reaches this magnitude
MaxZ == 3
\* export requests that start a run over one behaviour
MaxExports == 2
\* pointer-down events on items and resize handles over one behaviour
MaxPointerDowns == 2
\* the pointer-moves of a session are counted up to this number
MaxMoves == 2

(* ------------------------------ helpers ------------------------------ *)

NoId == 0

Min2(a, b) == IF a <= b THEN a ELSE b

Max2(a, b) == IF a >= b THEN a ELSE b

Range(s) == {s[i] : i \in 1..Len(s)}

clampFromBelow(value, min, max) ==
    IF value < min THEN min ELSE value

clamp(value, min, max) ==
    IF value < min THEN min ELSE IF value > max THEN max ELSE value

\* Math.round(value * 100) / 100, on thousandths
roundToTwo(value) ==
    ((value * 100 + (ZoomUnit \div 2)) \div ZoomUnit) * (ZoomUnit \div 100)

\* items.reduce((acc, item) => Math.max(acc, item.zIndex), 0)
RECURSIVE ReduceMaxZ(_, _)
ReduceMaxZ(s, acc) ==
    IF s = <<>> THEN acc ELSE ReduceMaxZ(Tail(s), Max2(acc, Head(s).zIndex))

\* prev.reduce((acc, item) => Math.min(acc, item.zIndex), Infinity);
\* the accumulator Infinity is the empty sequence's result only
RECURSIVE ReduceMinZFrom(_, _)
ReduceMinZFrom(s, acc) ==
    IF s = <<>> THEN acc ELSE ReduceMinZFrom(Tail(s), Min2(acc, Head(s).zIndex))

Infinity == 1000000

ReduceMinZ(s) == ReduceMinZFrom(s, Infinity)

\* prev.map(fn)
MapItems(s, fn(_)) == [i \in 1..Len(s) |-> fn(s[i])]

\* prev.filter((item) => item.id !== id)
RECURSIVE FilterOutId(_, _)
FilterOutId(s, id) ==
    IF s = <<>> THEN <<>>
    ELSE IF Head(s).id = id THEN FilterOutId(Tail(s), id)
         ELSE <<Head(s)>> \o FilterOutId(Tail(s), id)

\* items.find((entry) => entry.id === id)
HasId(s, id) == \E i \in 1..Len(s) : s[i].id = id

Find(s, id) == s[CHOOSE i \in 1..Len(s) : s[i].id = id /\ \A j \in 1..(i - 1) : s[j].id # id]

\* rational numbers [n, d] in lowest terms with d > 0: the draw geometry
\* divides by the natural size of the image
RECURSIVE Gcd(_, _)
Gcd(a, b) == IF b = 0 THEN a ELSE Gcd(b, a % b)

\* the value of an expression, evaluated once
Value(e) == CHOOSE v \in {e} : TRUE

Abs(a) == IF a < 0 THEN -a ELSE a

Lowest(n, d, g) ==
    LET sgn == IF d < 0 THEN -1 ELSE 1
    IN  [n |-> sgn * (n \div g), d |-> sgn * (d \div g)]

Rat(n, d) ==
    CHOOSE r \in {Lowest(x, y, Value(Gcd(Abs(x), Abs(y)))) : x \in {n}, y \in {d}} : TRUE

RatInt(a) == [n |-> a, d |-> 1]

RatAdd(a, b) == Rat(a.n * b.d + b.n * a.d, a.d * b.d)

RatSub(a, b) == Rat(a.n * b.d - b.n * a.d, a.d * b.d)

RatMul(a, b) == Rat(a.n * b.n, a.d * b.d)

RatDiv(a, b) == Rat(a.n * b.d, a.d * b.n)

RatLeq(a, b) == a.n * b.d <= b.n * a.d

RatMax(a, b) == IF RatLeq(a, b) THEN b ELSE a

RatMin(a, b) == IF RatLeq(a, b) THEN a ELSE b

(* ------------------------------- state ------------------------------- *)

VARIABLES
    items,        \* useState<CanvasItem[]>
    selectedId,   \* useState<string | null>; NoId is null
    zoom,         \* useState(1), in thousandths
    scroll,       \* the scrollLeft, scrollTop last assigned to the container, in pixels
    isExporting,  \* useState(false)
    dragState,    \* useRef: [id, offsetX, offsetY]; id = NoId is null
    resizeState,  \* useRef: [id, originX, originY, startWidth, startHeight]
    pointerDowns, \* pointer-down events delivered to an item or a resize handle
    pointer,      \* the position of the last pointer-down or pointer-move
    grab,         \* at the pointer-down of the drag session: the pointer position
                  \* p, the zoom and the item's x, y; at the pointer-down of the
                  \* resize session: the pointer position hp, the zoom hzoom and
                  \* the item's width, height; moves: the pointer-moves of the
                  \* sessions so far, counted up to MaxMoves
    createdUrls,  \* useRef<Set<string>>
    revoked,      \* object URLs passed to URL.revokeObjectURL
    nextUrl,      \* the next object URL that URL.createObjectURL returns
    nextId,       \* the next `${Date.now()}-${Math.random()}` identity
    uploads,      \* handleFilesSelected calls suspended at an await
    exportRuns,   \* handleExport calls suspended at an await
    exportsStarted, \* handleExport calls that passed the entry guard
    downloads,    \* link.click() calls
    mounted,      \* the component is mounted: its effects' cleanups have not run
    listeners,    \* the mousemove, mouseup listener pairs registered on the window
    training,     \* TrainingPage: isProcessing, trainingStatus.status, whether
                  \* pollingInterval holds a running timer, the GET /train/status
                  \* requests in flight, whether the POST /train is in flight
    exportOutcome, \* after a handleExport call returned: how it ended
    doneBatch,    \* after a batch completed: its size and its valid images
    lastOp,       \* the handler that ran last
    prevOp        \* the handler that ran before it, where a claim is about the pair

sceneVars == <<items, selectedId>>

sessionVars == <<dragState, resizeState, pointerDowns, pointer, grab>>

urlVars == <<createdUrls, revoked, nextUrl, nextId>>

uploadVars == <<uploads>>

exportVars == <<isExporting, exportRuns, exportsStarted, downloads>>

vars == <<items, selectedId, zoom, scroll, isExporting, dragState, resizeState, pointerDowns,
          pointer, grab,
          createdUrls, revoked, nextUrl, nextId, uploads, exportRuns,
          exportsStarted, downloads, mounted, listeners, training, exportOutcome, doneBatch,
          lastOp, prevOp>>

NoDrag == [id |-> NoId, offsetX |-> 0, offsetY |-> 0]

NoGrab == [p |-> <<0, 0>>, zoom |-> 0, x |-> 0, y |-> 0,
           hp |-> <<0, 0>>, hzoom |-> 0, width |-> 0, height |-> 0, moves |-> 0]

NoBatch == [files |-> 0, valid |-> 0]

\* failure: what went wrong in the try block; promise: what the promise of
\* the call settled to; ordered, drawn: the items of the run and its draw calls
NoOutcome == [failure |-> "none", promise |-> "none", ordered |-> 0, drawn |-> 0]

NoResize == [id |-> NoId, originX |-> 0, originY |-> 0,
             startWidth |-> 0, startHeight |-> 0]

\* the size of the scroll container: container.clientWidth, clientHeight
ClientWidth == 800

ClientHeight == 600

\* (CANVAS_DIMENSION - container.clientWidth) / 2, and likewise the top
CenterOfCanvas ==
    [left |-> Rat(CANVAS_DIMENSION - ClientWidth, 2),
     top |-> Rat(CANVAS_DIMENSION - ClientHeight, 2)]

Init ==
    /\ items = <<>>
    /\ selectedId = NoId
    /\ zoom = ZoomUnit
    /\ scroll = CenterOfCanvas
    /\ isExporting = FALSE
    /\ dragState = NoDrag
    /\ resizeState = NoResize
    /\ pointerDowns = 0
    /\ pointer = <<0, 0>>
    /\ grab = NoGrab
    /\ createdUrls = {}
    /\ revoked = {}
    /\ nextUrl = 1
    /\ nextId = 1
    /\ uploads = <<>>
    /\ exportRuns = <<>>
    /\ exportsStarted = 0
    /\ downloads = 0
    /\ mounted = TRUE
    /\ listeners = 1
    /\ training = [isProcessing |-> FALSE, status |-> "idle",
                   pollingInterval |-> FALSE, polls |-> 0, post |-> FALSE]
    /\ exportOutcome = NoOutcome
    /\ doneBatch = NoBatch
    /\ lastOp = "init"
    /\ prevOp = "any"

\* the handlers whose predecessor is recorded
Sequenced == {"sendBackward"}

Did(op) ==
    /\ lastOp' = op
    /\ prevOp' = IF op \in Sequenced THEN lastOp ELSE "any"
    /\ doneBatch' = NoBatch
    /\ exportOutcome' = NoOutcome

\* handleFilesSelected returned
DidUpload(batch) ==
    /\ lastOp' = "uploadDone"
    /\ prevOp' = "any"
    /\ doneBatch' = batch
    /\ exportOutcome' = NoOutcome

\* handleExport returned
DidExport(op, outcome) ==
    /\ lastOp' = op
    /\ prevOp' = "any"
    /\ doneBatch' = NoBatch
    /\ exportOutcome' = outcome

(* ------------------------ pointer interaction ------------------------ *)

\* The handlers are bound to elements of the mounted component: they run
\* while it is mounted.  handleMouseMove and handleMouseUp are listeners of
\* the window, registered by an effect with an empty dependency list: they
\* run while registered, and the state updates of an unmounted component are
\* dropped.

\* pointer positions (event.clientX - bounds.left, event.clientY - bounds.top)
Pointers ==
    { <<2000, 2000>>, <<1880, 2040>>, <<260, 180>>, <<9000, 6000>>, <<-500, -500>> }

\* (event.clientX - canvasBounds.left) / zoomRef.current
ToScene(c) == (c * Px * ZoomUnit) \div zoom

\* the pointer positions whose scene coordinates are whole units
ExactPointer(p) ==
    (p[1] * Px * ZoomUnit) % zoom = 0 /\ (p[2] * Px * ZoomUnit) % zoom = 0

DragItemAnyId(item, pointerX, pointerY) ==
    [item EXCEPT
        !.x = clamp(pointerX - dragState.offsetX, 0, SceneExtent - item.width),
        !.y = clamp(pointerY - dragState.offsetY, 0, SceneExtent - item.height)]

DragItemByDelta(item, pointerX, pointerY) ==
    IF item.id # dragState.id THEN item
    ELSE [item EXCEPT
            !.x = clamp(item.x + (pointerX - ToScene(pointer[1])),
                        0, SceneExtent - item.width),
            !.y = clamp(item.y + (pointerY - ToScene(pointer[2])),
                        0, SceneExtent - item.height)]

DragItem(item, pointerX, pointerY) ==
    IF item.id # dragState.id THEN item
    ELSE [item EXCEPT
            !.x = clamp(pointerX - dragState.offsetX, 0, SceneExtent - item.width),
            !.y = clamp(pointerY - dragState.offsetY, 0, SceneExtent - item.height)]

ResizeItemCumulative(item, pointerX, pointerY) ==
    IF item.id # resizeState.id THEN item
    ELSE [item EXCEPT
            !.width = clamp(item.width + (pointerX - resizeState.originX),
                            MinSize, SceneExtent - item.x),
            !.height = clamp(item.height + (pointerY - resizeState.originY),
                             MinSize, SceneExtent - item.y)]

ResizeItemFromCentre(item, pointerX, pointerY) ==
    IF item.id # resizeState.id THEN item
    ELSE LET width == clamp(resizeState.startWidth + 2 * (pointerX - resizeState.originX),
                            MinSize, SceneExtent - item.x)
             height == clamp(resizeState.startHeight + 2 * (pointerY - resizeState.originY),
                             MinSize, SceneExtent - item.y)
         IN  [item EXCEPT
                !.x = item.x - (width - item.width) \div 2,
                !.y = item.y - (height - item.height) \div 2,
                !.width = width,
                !.height = height]

ResizeItem(item, pointerX, pointerY) ==
    IF item.id # resizeState.id THEN item
    ELSE [item EXCEPT
            !.width = clamp(resizeState.startWidth + (pointerX - resizeState.originX),
                            MinSize, SceneExtent - item.x),
            !.height = clamp(resizeState.startHeight + (pointerY - resizeState.originY),
                             MinSize, SceneExtent - item.y)]

handleMouseMove(p) ==
    /\ listeners > 0
    /\ ExactPointer(p)
    /\ LET pointerX == ToScene(p[1])
           pointerY == ToScene(p[2])
           drag(item) == DragItem(item, pointerX, pointerY)
           resize(item) == ResizeItem(item, pointerX, pointerY)
       IN  items' = IF ~mounted THEN items
                    ELSE IF dragState.id # NoId THEN MapItems(items, drag)
                    ELSE IF resizeState.id # NoId THEN MapItems(items, resize)
                    ELSE items
    /\ pointer' = p
    /\ grab' = IF dragState.id # NoId \/ resizeState.id # NoId
               THEN [grab EXCEPT !.moves = Min2(@ + 1, MaxMoves)]
               ELSE grab
    /\ Did("mouseMove")
    /\ UNCHANGED <<selectedId, zoom, mounted, training, listeners, scroll, dragState, resizeState, pointerDowns,
                   urlVars, uploadVars, exportVars>>

handleMouseUpEndsDragOnly ==
    /\ listeners > 0
    /\ dragState' = NoDrag
    /\ grab' = NoGrab
    /\ Did("mouseUp")
    /\ UNCHANGED <<resizeState, pointerDowns, pointer, sceneVars, zoom, mounted, training, listeners, scroll,
                   urlVars, uploadVars, exportVars>>

handleMouseUp ==
    /\ listeners > 0
    /\ dragState' = NoDrag
    /\ resizeState' = NoResize
    /\ grab' = NoGrab
    /\ Did("mouseUp")
    /\ UNCHANGED <<pointerDowns, pointer, sceneVars, zoom, mounted, training, listeners, scroll, urlVars, uploadVars, exportVars>>

handleBackgroundMouseDownOnAnyTarget ==
    /\ mounted
    /\ Did("backgroundMouseDown")
    /\ UNCHANGED <<items, selectedId, zoom, mounted, training, listeners, scroll, sessionVars, urlVars, uploadVars,
                   exportVars>>

handleBackgroundMouseDown ==
    /\ mounted
    /\ selectedId' = NoId
    /\ Did("backgroundMouseDown")
    /\ UNCHANGED <<items, zoom, mounted, training, listeners, scroll, sessionVars, urlVars, uploadVars, exportVars>>

handleItemMouseDownCentred(p, id) ==
    /\ mounted
    /\ ExactPointer(p)
    /\ pointerDowns < MaxPointerDowns
    /\ pointerDowns' = pointerDowns + 1
    /\ pointer' = p
    /\ IF ~HasId(items, id)
       THEN UNCHANGED <<dragState, selectedId, grab>>
       ELSE LET item == Find(items, id)
            IN  /\ grab' = [grab EXCEPT !.p = p, !.zoom = zoom,
                                        !.x = item.x, !.y = item.y]
                /\ dragState' = [id |-> id,
                                 offsetX |-> item.width \div 2,
                                 offsetY |-> item.height \div 2]
                /\ selectedId' = id
    /\ Did("itemMouseDown")
    /\ UNCHANGED <<items, zoom, mounted, training, listeners, scroll, resizeState, urlVars, uploadVars, exportVars>>

handleItemMouseDown(p, id) ==
    /\ mounted
    /\ ExactPointer(p)
    /\ pointerDowns < MaxPointerDowns
    /\ pointerDowns' = pointerDowns + 1
    /\ pointer' = p
    /\ IF ~HasId(items, id)
       THEN UNCHANGED <<dragState, selectedId, grab>>
       ELSE LET item == Find(items, id)
            IN  /\ grab' = [grab EXCEPT !.p = p, !.zoom = zoom,
                                        !.x = item.x, !.y = item.y]
                /\ dragState' = [id |-> id,
                                 offsetX |-> ToScene(p[1]) - item.x,
                                 offsetY |-> ToScene(p[2]) - item.y]
                /\ selectedId' = id
    /\ Did("itemMouseDown")
    /\ UNCHANGED <<items, zoom, mounted, training, listeners, scroll, resizeState, urlVars, uploadVars, exportVars>>

handleResizeMouseDown(p, id) ==
    /\ mounted
    /\ ExactPointer(p)
    /\ pointerDowns < MaxPointerDowns
    /\ pointerDowns' = pointerDowns + 1
    /\ pointer' = p
    /\ IF ~HasId(items, id)
       THEN UNCHANGED <<resizeState, selectedId, grab>>
       ELSE LET item == Find(items, id)
            IN  /\ grab' = [grab EXCEPT !.hp = p, !.hzoom = zoom,
                                        !.width = item.width, !.height = item.height]
                /\ resizeState' = [id |-> id,
                                   originX |-> ToScene(p[1]),
                                   originY |-> ToScene(p[2]),
                                   startWidth |-> item.width,
                                   startHeight |-> item.height]
                /\ selectedId' = id
    /\ Did("resizeMouseDown")
    /\ UNCHANGED <<items, zoom, mounted, training, listeners, scroll, dragState, urlVars, uploadVars, exportVars>>

(* ----------------------------- viewport ------------------------------ *)

handleZoomInUnclamped ==
    /\ mounted
    /\ zoom' = roundToTwo(zoom + ZOOM_STEP)
    /\ Did("zoomIn")
    /\ UNCHANGED <<mounted, training, listeners, scroll, sceneVars, sessionVars, urlVars, uploadVars, exportVars>>

handleZoomIn ==
    /\ mounted
    /\ zoom' = Min2(MAX_ZOOM, roundToTwo(zoom + ZOOM_STEP))
    /\ Did("zoomIn")
    /\ UNCHANGED <<mounted, training, listeners, scroll, sceneVars, sessionVars, urlVars, uploadVars, exportVars>>

handleZoomOutRescaling ==
    /\ mounted
    /\ zoom' = Max2(MIN_ZOOM, roundToTwo(zoom - ZOOM_STEP))
    /\ items' = [i \in 1..Len(items) |->
                    [items[i] EXCEPT !.width = (@ * zoom') \div zoom,
                                     !.height = (@ * zoom') \div zoom]]
    /\ Did("zoomOut")
    /\ UNCHANGED <<mounted, training, listeners, scroll, selectedId, sessionVars, urlVars, uploadVars, exportVars>>

handleZoomOut ==
    /\ mounted
    /\ zoom' = Max2(MIN_ZOOM, roundToTwo(zoom - ZOOM_STEP))
    /\ Did("zoomOut")
    /\ UNCHANGED <<mounted, training, listeners, scroll, sceneVars, sessionVars, urlVars, uploadVars, exportVars>>

handleResetView ==
    /\ mounted
    /\ zoom' = ZoomUnit
    /\ scroll' = CenterOfCanvas
    /\ Did("resetView")
    /\ UNCHANGED <<mounted, training, listeners, sceneVars, sessionVars, urlVars, uploadVars, exportVars>>

\* the offset that shows the scaled centre c of an item (scene units) in the
\* middle of a view of `client` pixels: c * zoom - (client / zoom) / 2
ScrollTo(c, client) ==
    LET z == Rat(zoom, ZoomUnit)
        view == RatDiv(RatInt(client), z)
    IN  RatSub(RatMul(c, z), RatDiv(view, RatInt(2)))

\* item.x + item.width / 2 and item.y + item.height / 2, in pixels
CenterX(item) == Rat(2 * item.x + item.width, 2 * Px)

CenterY(item) == Rat(2 * item.y + item.height, 2 * Px)

handleLayerSelect(id) ==
    /\ mounted
    /\ selectedId' = id
    /\ scroll' = IF ~HasId(items, id) THEN scroll
                 ELSE [left |-> ScrollTo(CenterX(Find(items, id)), ClientWidth),
                       top |-> ScrollTo(CenterY(Find(items, id)), ClientHeight)]
    /\ Did("layerSelect")
    /\ UNCHANGED <<items, zoom, mounted, training, listeners, sessionVars, urlVars, uploadVars, exportVars>>

(* ------------------------- delete and reorder ------------------------ *)

handleDeleteSelectedKeepsUrl ==
    /\ mounted
    /\ IF selectedId = NoId
       THEN UNCHANGED <<items, selectedId>>
       ELSE /\ items' = FilterOutId(items, selectedId)
            /\ selectedId' = NoId
    /\ Did("deleteSelected")
    /\ UNCHANGED <<zoom, mounted, training, listeners, scroll, sessionVars, urlVars, uploadVars, exportVars>>

handleDeleteSelectedKeepsSelection ==
    /\ mounted
    /\ IF selectedId = NoId
       THEN UNCHANGED <<items, createdUrls, revoked>>
       ELSE /\ IF HasId(items, selectedId)
               THEN LET target == Find(items, selectedId)
                    IN  /\ createdUrls' = createdUrls \ {target.src}
                        /\ revoked' = revoked \cup {target.src}
               ELSE UNCHANGED <<createdUrls, revoked>>
            /\ items' = FilterOutId(items, selectedId)
    /\ Did("deleteSelected")
    /\ UNCHANGED <<selectedId, zoom, mounted, training, listeners, scroll, sessionVars, nextUrl, nextId, uploadVars,
                   exportVars>>

handleDeleteSelected ==
    /\ mounted
    /\ IF selectedId = NoId
       THEN UNCHANGED <<items, selectedId, createdUrls, revoked>>
       ELSE /\ IF HasId(items, selectedId)
               THEN LET target == Find(items, selectedId)
                    IN  /\ createdUrls' = createdUrls \ {target.src}
                        /\ revoked' = revoked \cup {target.src}
               ELSE UNCHANGED <<createdUrls, revoked>>
            /\ items' = FilterOutId(items, selectedId)
            /\ selectedId' = NoId
    /\ Did("deleteSelected")
    /\ UNCHANGED <<zoom, mounted, training, listeners, scroll, sessionVars, nextUrl, nextId, uploadVars, exportVars>>

ToFrontAtMaximum(item) ==
    IF item.id = selectedId
    THEN [item EXCEPT !.zIndex = ReduceMaxZ(items, 0)] ELSE item

ToFront(item) ==
    IF item.id = selectedId
    THEN [item EXCEPT !.zIndex = ReduceMaxZ(items, 0) + 1] ELSE item

handleBringForward ==
    /\ mounted
    /\ ReduceMaxZ(items, 0) < MaxZ
    /\ IF selectedId = NoId
       THEN UNCHANGED items
       ELSE items' = MapItems(items, ToFront)
    /\ Did("bringForward")
    /\ UNCHANGED <<selectedId, zoom, mounted, training, listeners, scroll, sessionVars, urlVars, uploadVars, exportVars>>

ToBackAtMinimum(item) ==
    IF item.id = selectedId
    THEN [item EXCEPT !.zIndex = ReduceMinZ(items)] ELSE item

ToBack(item) ==
    IF item.id = selectedId
    THEN [item EXCEPT !.zIndex = ReduceMinZ(items) - 1] ELSE item

handleSendBackward ==
    /\ mounted
    /\ ReduceMinZ(items) > -MaxZ
    /\ IF selectedId = NoId
       THEN UNCHANGED items
       ELSE items' = MapItems(items, ToBack)
    /\ Did("sendBackward")
    /\ UNCHANGED <<selectedId, zoom, mounted, training, listeners, scroll, sessionVars, urlVars, uploadVars, exportVars>>

(* ------------------------------- upload ------------------------------ *)

\* a selected file: its MIME type is image/*, loadImageElement resolves,
\* and image.naturalWidth || image.width, image.naturalHeight || image.height
File(image, decodable, nw, nh) ==
    [image |-> image, decodable |-> decodable, naturalWidth |-> nw, naturalHeight |-> nh]

NonImage == File(FALSE, FALSE, 0, 0)

Undecodable == File(TRUE, FALSE, 0, 0)

ZeroHeight == File(TRUE, TRUE, 400, 0)

Wide == File(TRUE, TRUE, 400, 200)

Tiny == File(TRUE, TRUE, 20, 20)

Tall == File(TRUE, TRUE, 100, 4200)

\* an image whose item is 320 x 50.5 pixels
Fractional == File(TRUE, TRUE, 640, 101)

FileKinds == {NonImage, Undecodable, ZeroHeight, Wide, Tiny, Tall}

\* a file that handleFilesSelected turns into an item
IsValid(f) == f.image /\ f.decodable /\ f.naturalWidth # 0 /\ f.naturalHeight # 0

\* Array.from(event.target.files ?? [])
ListsOf(kinds) == UNION {[1..n -> kinds] : n \in 0..MaxFiles}

FileLists == ListsOf(FileKinds)

RECURSIVE CountValid(_)
CountValid(files) ==
    IF files = <<>> THEN 0
    ELSE (IF IsValid(Head(files)) THEN 1 ELSE 0) + CountValid(Tail(files))

RECURSIVE CountImages(_)
CountImages(files) ==
    IF files = <<>> THEN 0
    ELSE (IF Head(files).image THEN 1 ELSE 0) + CountImages(Tail(files))

NewItemAtCentre(id, src, f, z) ==
    LET baseWidth == Min2(f.naturalWidth, MaxInitialWidth) * Px
        baseHeight == (f.naturalHeight * baseWidth) \div f.naturalWidth
        canvasCenter == SceneExtent \div 2
    IN  [id |-> id, src |-> src,
         x |-> canvasCenter,
         y |-> canvasCenter,
         width |-> baseWidth, height |-> baseHeight,
         zIndex |-> z,
         naturalWidth |-> f.naturalWidth, naturalHeight |-> f.naturalHeight]

\* the item built from a decoded image
NewItem(id, src, f, z) ==
    LET baseWidth == Min2(f.naturalWidth, MaxInitialWidth) * Px
        baseHeight == (f.naturalHeight * baseWidth) \div f.naturalWidth
        canvasCenter == SceneExtent \div 2
    IN  [id |-> id, src |-> src,
         x |-> canvasCenter - (baseWidth \div 2),
         y |-> canvasCenter - (baseHeight \div 2),
         width |-> baseWidth, height |-> baseHeight,
         zIndex |-> z,
         naturalWidth |-> f.naturalWidth, naturalHeight |-> f.naturalHeight]

\* the files on which NewItem is exact
ExactFile(f) ==
    IF f.naturalWidth = 0 THEN TRUE
    ELSE LET baseWidth == Min2(f.naturalWidth, MaxInitialWidth) * Px
         IN  /\ (f.naturalHeight * baseWidth) % f.naturalWidth = 0
             /\ baseWidth % 2 = 0
             /\ ((f.naturalHeight * baseWidth) \div f.naturalWidth) % 2 = 0

\* the files of the for loop that come before the next image file
RECURSIVE SkipNonImages(_)
SkipNonImages(files) ==
    IF files = <<>> THEN <<>>
    ELSE IF Head(files).image THEN files ELSE SkipNonImages(Tail(files))

ItemsOfBatchOnly(prev, newItems) == newItems

\* setItems((prev) => [...prev, ...newItems])
ItemsWithBatch(prev, newItems) == prev \o newItems

\* The for loop from its top, with `files` still to visit, up to the next
\* await (a batch is appended to `others`) or to the end of the function
\* (the accepted items are appended and the last one selected; the state
\* updates of an unmounted component are dropped).
RunLoop(files, zCursor, newItems, batch, others, opName) ==
    LET rest == SkipNonImages(files)
    IN  IF rest # <<>>
        THEN /\ createdUrls' = createdUrls \cup {nextUrl}
             /\ nextUrl' = nextUrl + 1
             /\ uploads' = Append(others, [pending |-> Head(rest), src |-> nextUrl,
                                           files |-> Tail(rest), zCursor |-> zCursor,
                                           newItems |-> newItems, batch |-> batch])
             /\ Did(opName)
             /\ UNCHANGED <<items, selectedId>>
        ELSE /\ uploads' = others
             /\ IF newItems # <<>> /\ mounted
                THEN /\ items' = ItemsWithBatch(items, newItems)
                     /\ selectedId' = newItems[Len(newItems)].id
                ELSE UNCHANGED <<items, selectedId>>
             /\ DidUpload(batch)
             /\ UNCHANGED <<createdUrls, nextUrl>>

\* the file picker's change event, with fewer than `most` batches decoding
handleFilesSelectedAmong(files, most) ==
    /\ mounted
    /\ Len(uploads) < most
    /\ nextUrl - 1 + CountImages(files) <= MaxUrls
    /\ \A i \in 1..Len(files) : ExactFile(files[i])
    /\ IF files = <<>>
       THEN /\ Did("filesSelected")
            /\ UNCHANGED <<items, selectedId, createdUrls, nextUrl, uploads>>
       ELSE RunLoop(files, ReduceMaxZ(items, 0), <<>>,
                    [files |-> Len(files), valid |-> CountValid(files)],
                    uploads, "filesSelected")
    /\ UNCHANGED <<zoom, mounted, training, listeners, scroll, sessionVars, revoked, nextId, exportVars>>

handleFilesSelected(files) == handleFilesSelectedAmong(files, MaxBatches)

unshift(newItems, item) == <<item>> \o newItems

\* newItems.push(item)
push(newItems, item) == Append(newItems, item)

RemoveAt(s, i) == SubSeq(s, 1, i - 1) \o SubSeq(s, i + 1, Len(s))

AcceptedWhateverSize(u) == u.pending.decodable /\ u.src \notin revoked

\* the try block reaches newItems.push(item): the image loaded and neither
\* natural dimension is zero
Accepted(u) ==
    /\ u.pending.decodable /\ u.src \notin revoked
    /\ u.pending.naturalWidth # 0 /\ u.pending.naturalHeight # 0

\* loadImageElement(src) settles for the batch at position b; an accepted
\* file becomes an item whose id is the string built from Date.now() and
\* Math.random(), here the draw `id`
uploadDecodedAs(b, id) ==
    /\ b \in 1..Len(uploads)
    /\ LET u == uploads[b]
           others == RemoveAt(uploads, b)
       IN  IF Accepted(u)
           THEN /\ nextId' = nextId + 1
                /\ RunLoop(u.files, u.zCursor + 1,
                           push(u.newItems,
                                NewItem(id, u.src, u.pending, u.zCursor + 1)),
                           u.batch, others, "uploadDecoded")
           ELSE /\ nextId' = nextId
                /\ RunLoop(u.files, u.zCursor, u.newItems, u.batch, others,
                           "uploadDecoded")
    /\ UNCHANGED <<zoom, mounted, training, listeners, scroll, sessionVars, revoked, exportVars>>

\* the draw differs from every id drawn before: nextId counts the draws
uploadDecoded(b) == uploadDecodedAs(b, nextId)

(* ------------------------------- export ------------------------------ *)

\* Math.min(...items.map(f)) and Math.max(...items.map(f)); of no argument
\* they are Infinity and -Infinity
RECURSIVE MinOver(_, _, _)
MinOver(s, f(_), acc) ==
    IF s = <<>> THEN acc ELSE MinOver(Tail(s), f, Min2(acc, f(Head(s))))

RECURSIVE MaxOver(_, _, _)
MaxOver(s, f(_), acc) ==
    IF s = <<>> THEN acc ELSE MaxOver(Tail(s), f, Max2(acc, f(Head(s))))

Left(item) == item.x

Top(item) == item.y

Right(item) == item.x + item.width

Bottom(item) == item.y + item.height

\* [...items].sort((a, b) => a.zIndex - b.zIndex): a stable sort
RECURSIVE InsertByZ(_, _)
InsertByZ(sorted, item) ==
    IF sorted = <<>> THEN <<item>>
    ELSE IF sorted[Len(sorted)].zIndex <= item.zIndex THEN Append(sorted, item)
         ELSE Append(InsertByZ(SubSeq(sorted, 1, Len(sorted) - 1), item),
                     sorted[Len(sorted)])

RECURSIVE SortFrom(_, _)
SortFrom(s, sorted) ==
    IF s = <<>> THEN sorted ELSE SortFrom(Tail(s), InsertByZ(sorted, Head(s)))

SortSkipped(s) == s

SortByZ(s) == SortFrom(s, <<>>)

\* Math.ceil of a length in scene units, in pixels
Ceil(u) == -((-u) \div Px)

exportSizeOnePadding(min, max) == Ceil(max - min + padding * Px)

\* Math.ceil(maxX - minX + padding * 2)
exportSize(min, max) == Ceil(max - min + padding * 2 * Px)

\* a length in scene units as a number of pixels
Pixels(u) == Rat(u, Px)

\* context.drawImage(image, offsetX, offsetY, drawWidth, drawHeight)
DrawCall(item, minX, minY) ==
    LET naturalWidth == RatInt(item.naturalWidth)
        naturalHeight == RatInt(item.naturalHeight)
        scale == RatMin(RatDiv(Pixels(item.width), naturalWidth),
                        RatDiv(Pixels(item.height), naturalHeight))
        drawWidth == RatMul(naturalWidth, scale)
        drawHeight == RatMul(naturalHeight, scale)
    IN  [id |-> item.id,
         offsetX |-> RatAdd(Pixels(padding * Px + item.x - minX),
                            RatDiv(RatSub(Pixels(item.width), drawWidth), RatInt(2))),
         offsetY |-> RatAdd(Pixels(padding * Px + item.y - minY),
                            RatDiv(RatSub(Pixels(item.height), drawHeight), RatInt(2))),
         drawWidth |-> drawWidth,
         drawHeight |-> drawHeight]

\* try { ... } catch { } finally { setIsExporting(false) }: what the promise
\* of handleExport settles to, the try block having thrown or not
Settled(thrown) == "fulfilled"

linkClicksWithoutBlob(hasBlob) == downloads + 1

\* canvasToBlob rejects without a blob, and link.click() is not reached
linkClicks(hasBlob) == IF hasBlob THEN downloads + 1 ELSE downloads

NextIndexAborting(run, loaded) ==
    IF loaded THEN run.idx + 1 ELSE Len(run.ordered) + 1

\* the inner try ... catch { } skips a layer that fails to load: the for loop
\* goes on with the next item
NextIndex(run, loaded) == run.idx + 1

resetOnSuccessOnly(failed) == IF mounted /\ ~failed THEN FALSE ELSE isExporting

\* finally { setIsExporting(false) }, the try block having failed or not;
\* the state update of an unmounted component is dropped
setIsExportingFinally(failed) == IF mounted THEN FALSE ELSE isExporting

EntryGuardNoEmptyCheck == ~isExporting

EntryGuardNoBusyCheck == Len(items) # 0

\* the negation of (!items.length || isExporting)
EntryGuard == Len(items) # 0 /\ ~isExporting

\* contextOk: canvasElement.getContext('2d') is not null
handleExport(contextOk) ==
    /\ mounted
    /\ IF ~EntryGuard
       THEN UNCHANGED exportVars /\ Did("export")
       ELSE /\ exportsStarted < MaxExports
            /\ exportsStarted' = exportsStarted + 1
            /\ downloads' = downloads
            /\ LET minX == MinOver(items, Left, Infinity)
                   minY == MinOver(items, Top, Infinity)
                   maxX == MaxOver(items, Right, -Infinity)
                   maxY == MaxOver(items, Bottom, -Infinity)
                   exportWidth == exportSize(minX, maxX)
                   exportHeight == exportSize(minY, maxY)
               IN  IF exportWidth <= 0 \/ exportHeight <= 0
                   THEN /\ isExporting' = FALSE
                        /\ exportRuns' = exportRuns
                        /\ Did("export")
                   ELSE IF ~contextOk
                   THEN /\ isExporting' = setIsExportingFinally(TRUE)
                        /\ exportRuns' = exportRuns
                        /\ DidExport("export",
                              [failure |-> "context", promise |-> Settled(TRUE),
                               ordered |-> Len(items), drawn |-> 0])
                   ELSE /\ isExporting' = TRUE
                        /\ Did("export")
                        /\ exportRuns' = Append(exportRuns,
                              [ordered |-> SortByZ(items), idx |-> 1,
                               minX |-> minX, minY |-> minY,
                               exportWidth |-> exportWidth,
                               exportHeight |-> exportHeight,
                               drawn |-> <<>>, phase |-> "decode"])
    /\ UNCHANGED <<sceneVars, zoom, mounted, training, listeners, scroll, sessionVars, urlVars, uploadVars>>

exportDecodedFromScene(r) ==
    /\ r \in 1..Len(exportRuns)
    /\ exportRuns[r].phase = "decode"
    /\ LET run == exportRuns[r]
           held == run.ordered[run.idx]
           item == IF HasId(items, held.id) THEN Find(items, held.id) ELSE held
           loaded == item.src \notin revoked
           drawn == IF loaded /\ item.naturalWidth # 0 /\ item.naturalHeight # 0
                    THEN Append(run.drawn, DrawCall(item, run.minX, run.minY))
                    ELSE run.drawn
           next == NextIndex(run, loaded)
       IN  exportRuns' = [exportRuns EXCEPT ![r] =
              IF next <= Len(run.ordered)
              THEN [run EXCEPT !.idx = next, !.drawn = drawn]
              ELSE [run EXCEPT !.idx = next, !.phase = "encode", !.drawn = drawn]]
    /\ Did("exportDecoded")
    /\ UNCHANGED <<sceneVars, zoom, mounted, training, listeners, scroll, sessionVars, urlVars, uploadVars,
                   isExporting, exportsStarted, downloads>>

\* loadImageElement(item.src) settles for the run at position r
exportDecoded(r) ==
    /\ r \in 1..Len(exportRuns)
    /\ exportRuns[r].phase = "decode"
    /\ LET run == exportRuns[r]
           item == run.ordered[run.idx]
           loaded == item.src \notin revoked
           drawn == IF loaded /\ item.naturalWidth # 0 /\ item.naturalHeight # 0
                    THEN Append(run.drawn, DrawCall(item, run.minX, run.minY))
                    ELSE run.drawn
           next == NextIndex(run, loaded)
       IN  exportRuns' = [exportRuns EXCEPT ![r] =
              IF next <= Len(run.ordered)
              THEN [run EXCEPT !.idx = next, !.drawn = drawn]
              ELSE [run EXCEPT !.idx = next, !.phase = "encode", !.drawn = drawn]]
    /\ Did("exportDecoded")
    /\ UNCHANGED <<sceneVars, zoom, mounted, training, listeners, scroll, sessionVars, urlVars, uploadVars,
                   isExporting, exportsStarted, downloads>>

\* canvas.toBlob calls back for the run at position r; hasBlob: blob is not null
exportEncoded(r, hasBlob) ==
    /\ r \in 1..Len(exportRuns)
    /\ exportRuns[r].phase = "encode"
    /\ downloads' = linkClicks(hasBlob)
    /\ isExporting' = setIsExportingFinally(~hasBlob)
    /\ exportRuns' = RemoveAt(exportRuns, r)
    /\ DidExport("exportEncoded",
          [failure |-> IF hasBlob THEN "none" ELSE "encode",
           promise |-> Settled(~hasBlob),
           ordered |-> Len(exportRuns[r].ordered),
           drawn |-> Len(exportRuns[r].drawn)])
    /\ UNCHANGED <<sceneVars, zoom, mounted, training, listeners, scroll, sessionVars, urlVars, uploadVars, exportsStarted>>

(* ------------------------------ teardown ------------------------------ *)

teardownKeepsListeners ==
    /\ mounted
    /\ mounted' = FALSE
    /\ revoked' = revoked \cup createdUrls
    /\ Did("teardown")
    /\ UNCHANGED <<sceneVars, zoom, training, scroll, sessionVars, createdUrls, nextUrl, nextId,
                   uploadVars, exportVars, listeners>>

\* the cleanups of the effects run: window.removeEventListener for the two
\* listeners, and createdUrls.current.forEach(revoke)
teardown ==
    /\ mounted
    /\ mounted' = FALSE
    /\ listeners' = listeners - 1
    /\ revoked' = revoked \cup createdUrls
    /\ Did("teardown")
    /\ UNCHANGED <<sceneVars, zoom, training, scroll, sessionVars, createdUrls, nextUrl, nextId,
                   uploadVars, exportVars>>

(* ------------------------------ training ----------------------------- *)

\* TrainingStatus['status']
Statuses == {"idle", "initializing", "loading_models", "training", "completed", "failed"}

\* the condition of the polling effect
ShouldPoll(t) ==
    t.isProcessing /\ t.status \in {"initializing", "loading_models", "training"}

\* The polling effect after the render of state `to`, the state before being
\* `from`: when isProcessing or trainingStatus.status changed, the cleanup
\* of the last run clears the interval and the effect sets a new one if its
\* condition holds.
PollingEffect(from, to) ==
    IF from.isProcessing = to.isProcessing /\ from.status = to.status
    THEN to
    ELSE [to EXCEPT !.pollingInterval = ShouldPoll(to)]

canvasVars == <<items, selectedId, zoom, scroll, isExporting, sessionVars, urlVars,
                uploadVars, exportRuns, exportsStarted, downloads, mounted, listeners>>

\* the Start Training button is shown and enabled
StartEnabled ==
    ~training.isProcessing /\ training.status \in {"idle", "completed", "failed"}

\* hasFiles: files.length # 0; one POST /train is in flight at a time
handleStartTraining(hasFiles) ==
    /\ StartEnabled
    /\ ~training.post
    /\ training' = IF ~hasFiles THEN training
                   ELSE PollingEffect(training,
                            [training EXCEPT !.isProcessing = TRUE,
                                             !.status = "initializing",
                                             !.post = TRUE])
    /\ Did("startTraining")
    /\ UNCHANGED canvasVars

\* axios.post('/train') settles; ok: it resolves
postSettled(ok) ==
    /\ training.post
    /\ training' = PollingEffect(training,
                       [training EXCEPT !.post = FALSE,
                                        !.isProcessing = IF ok THEN @ ELSE FALSE])
    /\ Did("postSettled")
    /\ UNCHANGED canvasVars

\* the interval fires: pollStatus sends its request
pollStatus ==
    /\ training.pollingInterval
    /\ training.polls < MaxPolls
    /\ training' = [training EXCEPT !.polls = @ + 1]
    /\ Did("pollStatus")
    /\ UNCHANGED canvasVars

\* axios.get('/train/status') resolves with newStatus
pollResolved(newStatus) ==
    /\ training.polls > 0
    /\ training' =
          PollingEffect(training,
             IF newStatus \in {"completed", "failed"}
             THEN [training EXCEPT !.polls = @ - 1, !.status = newStatus,
                                   !.pollingInterval = FALSE,
                                   !.isProcessing = FALSE]
             ELSE [training EXCEPT !.polls = @ - 1, !.status = newStatus])
    /\ Did("pollResolved")
    /\ UNCHANGED canvasVars

\* axios.get('/train/status') rejects
pollRejected ==
    /\ training.polls > 0
    /\ training' = PollingEffect(training,
                       [training EXCEPT !.polls = @ - 1,
                                        !.pollingInterval = FALSE,
                                        !.isProcessing = FALSE])
    /\ Did("pollRejected")
    /\ UNCHANGED canvasVars

(* ------------------------------ behaviour ----------------------------- *)

ItemIds == {items[i].id : i \in 1..Len(items)}

Next ==
    \/ \E p \in Pointers : handleMouseMove(p)
    \/ handleMouseUp
    \/ handleBackgroundMouseDown
    \/ \E p \in Pointers, id \in ItemIds : handleItemMouseDown(p, id)
    \/ \E p \in Pointers, id \in ItemIds : handleResizeMouseDown(p, id)
    \/ handleZoomIn
    \/ handleZoomOut
    \/ handleResetView
    \/ \E id \in ItemIds : handleLayerSelect(id)
    \/ handleDeleteSelected
    \/ handleBringForward
    \/ handleSendBackward
    \/ \E files \in FileLists : handleFilesSelected(files)
    \/ \E b \in 1..Len(uploads) : uploadDecoded(b)
    \/ \E contextOk \in BOOLEAN : handleExport(contextOk)
    \/ \E r \in 1..Len(exportRuns) : exportDecoded(r)
    \/ \E r \in 1..Len(exportRuns), hasBlob \in BOOLEAN : exportEncoded(r, hasBlob)
    \/ teardown
    \/ \E hasFiles \in BOOLEAN : handleStartTraining(hasFiles)
    \/ \E ok \in BOOLEAN : postSettled(ok)
    \/ pollStatus
    \/ \E newStatus \in Statuses : pollResolved(newStatus)
    \/ pollRejected

Spec == Init /\ [][Next]_vars

(* Scenarios: the same handlers under the inputs of one part of the editor. *)

\* the scene scenario: images of every size, selected, moved, resized and
\* deleted
ScenePointers == { <<2000, 2000>>, <<5000, -100>> }

SceneFiles == {<<Wide>>, <<Tiny>>, <<Tall>>, <<Fractional>>}

NextScene ==
    \/ \E p \in ScenePointers : handleMouseMove(p)
    \/ handleMouseUp
    \/ handleBackgroundMouseDown
    \/ \E p \in ScenePointers, id \in ItemIds : handleItemMouseDown(p, id)
    \/ \E p \in ScenePointers, id \in ItemIds : handleResizeMouseDown(p, id)
    \/ \E id \in ItemIds : handleLayerSelect(id)
    \/ handleDeleteSelected
    \/ \E files \in SceneFiles : handleFilesSelected(files)
    \/ \E b \in 1..Len(uploads) : uploadDecoded(b)

SpecScene == Init /\ [][NextScene]_vars

\* the stale-id scenario: handlers called with the id of an item that may
\* have been removed since the id was assigned
AssignedIds == 1..(nextId - 1)

StalePointers == { <<2000, 2000>>, <<1880, 2040>> }

NextStale ==
    \/ \E p \in StalePointers : handleMouseMove(p)
    \/ handleMouseUp
    \/ \E p \in StalePointers, id \in AssignedIds : handleItemMouseDown(p, id)
    \/ \E p \in StalePointers, id \in AssignedIds : handleResizeMouseDown(p, id)
    \/ \E id \in AssignedIds : handleLayerSelect(id)
    \/ handleDeleteSelected
    \/ handleBringForward
    \/ handleSendBackward
    \/ handleFilesSelected(<<Wide>>)
    \/ \E b \in 1..Len(uploads) : uploadDecoded(b)

SpecStale == Init /\ [][NextStale]_vars

\* the teardown scenario: the component unmounts while uploads are in flight
TeardownFiles == ListsOf({Undecodable, Wide})

NextTeardown ==
    \/ \E id \in ItemIds : handleLayerSelect(id)
    \/ handleDeleteSelected
    \/ \E files \in TeardownFiles : handleFilesSelected(files)
    \/ \E b \in 1..Len(uploads) : uploadDecoded(b)
    \/ teardown

SpecTeardown == Init /\ [][NextTeardown]_vars

\* the id scenario: uploads whose ids are drawn from a small set, so that
\* two draws can be equal (the same millisecond and the same random digits)
IdDraws == {1, 2}

IdFiles == ListsOf({NonImage, Wide, Tall})

NextIds ==
    \/ \E id \in ItemIds : handleLayerSelect(id)
    \/ handleDeleteSelected
    \/ handleBringForward
    \/ \E files \in IdFiles : handleFilesSelected(files)
    \/ \E b \in 1..Len(uploads), id \in IdDraws : uploadDecodedAs(b, id)

SpecIds == Init /\ [][NextIds]_vars

\* the unmount scenario: the component is torn down at any moment of a drag
\* session
NextUnmount ==
    \/ \E p \in ScenePointers : handleMouseMove(p)
    \/ handleMouseUp
    \/ handleBackgroundMouseDown
    \/ \E p \in ScenePointers, id \in ItemIds : handleItemMouseDown(p, id)
    \/ \E p \in ScenePointers, id \in ItemIds : handleResizeMouseDown(p, id)
    \/ \E files \in {<<Wide>>, <<Tiny>>} : handleFilesSelected(files)
    \/ \E b \in 1..Len(uploads) : uploadDecoded(b)
    \/ teardown

SpecUnmount == Init /\ [][NextUnmount]_vars

\* the scenario of overlapping batches: up to two batches decode at the same
\* time and complete in any order, while the items of the scene are moved,
\* resized and deleted
BatchFiles == {<<Wide>>, <<Tiny>>, <<Undecodable, Wide>>}

BatchPointers == { <<2000, 2000>>, <<2040, 1980>> }

NextBatches ==
    \/ \E p \in BatchPointers : handleMouseMove(p)
    \/ handleMouseUp
    \/ \E id \in ItemIds : pointerDowns = 0 /\ handleItemMouseDown(<<2000, 2000>>, id)
    \/ \E id \in ItemIds : pointerDowns = 0 /\ handleResizeMouseDown(<<2000, 2000>>, id)
    \/ \E id \in ItemIds : handleLayerSelect(id)
    \/ handleDeleteSelected
    \/ handleSendBackward
    \/ \E files \in BatchFiles : handleFilesSelectedAmong(files, MaxOverlap)
    \/ \E b \in 1..Len(uploads) : uploadDecoded(b)

SpecBatches == Init /\ [][NextBatches]_vars

\* the training scenario: the training page and a server that answers the
\* status requests with any status
NextTraining ==
    \/ \E hasFiles \in BOOLEAN : handleStartTraining(hasFiles)
    \/ \E ok \in BOOLEAN : postSettled(ok)
    \/ pollStatus
    \/ \E newStatus \in Statuses : pollResolved(newStatus)
    \/ pollRejected

SpecTraining == Init /\ [][NextTraining]_vars

\* the layer scenario: uploads with rejected files, selection, deletion and
\* reordering
LayerFiles == ListsOf({NonImage, Undecodable, ZeroHeight, Wide})

NextLayers ==
    \/ handleBackgroundMouseDown
    \/ \E id \in ItemIds : handleLayerSelect(id)
    \/ handleDeleteSelected
    \/ handleBringForward
    \/ handleSendBackward
    \/ \E files \in LayerFiles : handleFilesSelected(files)
    \/ \E b \in 1..Len(uploads) : uploadDecoded(b)

SpecLayers == Init /\ [][NextLayers]_vars

\* the viewport scenario: one image and one pointer session, at every zoom
ViewPointers == { <<2000, 2000>>, <<1000, 3000>>, <<9000, -100>> }

NextView ==
    \/ \E p \in ViewPointers : handleMouseMove(p)
    \/ handleMouseUp
    \/ \E p \in ViewPointers, id \in ItemIds :
          pointerDowns = 0 /\ handleItemMouseDown(p, id)
    \/ \E p \in ViewPointers, id \in ItemIds :
          pointerDowns = 0 /\ handleResizeMouseDown(p, id)
    \/ handleZoomIn
    \/ handleZoomOut
    \/ handleResetView
    \/ nextUrl = 1 /\ handleFilesSelected(<<Wide>>)
    \/ \E b \in 1..Len(uploads) : uploadDecoded(b)

SpecView == Init /\ [][NextView]_vars

\* the focus scenario: images of several sizes, selected in the layer list
\* at every zoom
FocusFiles == {<<Wide>>, <<Fractional>>}

NextFocus ==
    \/ \E id \in ItemIds : handleLayerSelect(id)
    \/ handleDeleteSelected
    \/ handleZoomIn
    \/ handleZoomOut
    \/ handleResetView
    \/ \E files \in FocusFiles : handleFilesSelected(files)
    \/ \E b \in 1..Len(uploads) : uploadDecoded(b)

SpecFocus == Init /\ [][NextFocus]_vars

\* the export scenario: two overlapping images, reordered and deleted while
\* export runs are in flight
ExportFiles == {<<Wide>>, <<Wide, Wide>>}

NextExport ==
    \/ \E id \in ItemIds : handleLayerSelect(id)
    \/ handleDeleteSelected
    \/ handleBringForward
    \/ handleSendBackward
    \/ \E files \in ExportFiles : handleFilesSelected(files)
    \/ \E b \in 1..Len(uploads) : uploadDecoded(b)
    \/ \E contextOk \in BOOLEAN : handleExport(contextOk)
    \/ \E r \in 1..Len(exportRuns) : exportDecoded(r)
    \/ \E r \in 1..Len(exportRuns), hasBlob \in BOOLEAN : exportEncoded(r, hasBlob)

SpecExport == Init /\ [][NextExport]_vars

\* the export-run scenario: export requests on a scene whose items are
\* deleted meanwhile; the image loads and the encoder's callback of a run in
\* flight take place
NextRuns ==
    \/ \E id \in ItemIds : handleLayerSelect(id)
    \/ handleDeleteSelected
    \/ \E files \in ExportFiles : handleFilesSelected(files)
    \/ \E b \in 1..Len(uploads) : uploadDecoded(b)
    \/ \E contextOk \in BOOLEAN : handleExport(contextOk)
    \/ \E r \in 1..Len(exportRuns) : exportDecoded(r)
    \/ \E r \in 1..Len(exportRuns), hasBlob \in BOOLEAN : exportEncoded(r, hasBlob)

SpecRunsFair ==
    /\ Init /\ [][NextRuns]_vars
    /\ WF_vars(\E r \in 1..Len(exportRuns) : exportDecoded(r))
    /\ WF_vars(\E r \in 1..Len(exportRuns), hasBlob \in BOOLEAN : exportEncoded(r, hasBlob))

\* the geometry scenario: images moved and resized by pointer sessions, then
\* exported; the pointer positions take the 400x200 image to (100, 100)
\* sized 200x200
GeometryPointers == { <<2000, 2000>>, <<1880, 2040>>, <<260, 180>> }

GeometryFiles == {<<Wide>>, <<Fractional>>}

NextGeometry ==
    \/ \E p \in GeometryPointers : handleMouseMove(p)
    \/ handleMouseUp
    \/ \E id \in ItemIds : handleItemMouseDown(<<2000, 2000>>, id)
    \/ \E id \in ItemIds : handleResizeMouseDown(<<2000, 2000>>, id)
    \/ \E files \in GeometryFiles : handleFilesSelected(files)
    \/ \E b \in 1..Len(uploads) : uploadDecoded(b)
    \/ \E contextOk \in BOOLEAN : handleExport(contextOk)
    \/ \E r \in 1..Len(exportRuns) : exportDecoded(r)
    \/ \E r \in 1..Len(exportRuns), hasBlob \in BOOLEAN : exportEncoded(r, hasBlob)

SpecGeometry == Init /\ [][NextGeometry]_vars

(* ------------------------------- claims ------------------------------ *)

\* C1: every item lies inside the scene: x >= 0, y >= 0,
\* x + width <= CANVAS_DIMENSION and y + height <= CANVAS_DIMENSION.
Confined ==
    \A i \in 1..Len(items) :
        /\ items[i].x >= 0
        /\ items[i].y >= 0
        /\ items[i].x + items[i].width <= CANVAS_DIMENSION * Px
        /\ items[i].y + items[i].height <= CANVAS_DIMENSION * Px

\* C2: every item is at least MIN_ITEM_SIZE wide and high, from the moment
\* it is created.
MinimumSize ==
    \A i \in 1..Len(items) :
        /\ items[i].width >= MIN_ITEM_SIZE * Px
        /\ items[i].height >= MIN_ITEM_SIZE * Px

\* C3: the zoom stays within [MIN_ZOOM, MAX_ZOOM] and on the 0.01 grid; a
\* zoomIn yields min(MAX_ZOOM, zoom + 0.1), a zoomOut max(MIN_ZOOM, zoom - 0.1)
\* and a resetView 1.
ZoomClamped ==
    /\ [](MIN_ZOOM <= zoom /\ zoom <= MAX_ZOOM /\ zoom % (ZoomUnit \div 100) = 0)
    /\ [][/\ lastOp' = "zoomIn" =>
               zoom' = (IF zoom + ZOOM_STEP > MAX_ZOOM THEN MAX_ZOOM ELSE zoom + ZOOM_STEP)
          /\ lastOp' = "zoomOut" =>
               zoom' = (IF zoom - ZOOM_STEP < MIN_ZOOM THEN MIN_ZOOM ELSE zoom - ZOOM_STEP)
          /\ lastOp' = "resetView" => zoom' = ZoomUnit]_vars

\* C3 witness: a zoomOut was clamped to MIN_ZOOM, which is off the 0.1 grid
ZoomOutClampedAtMin == lastOp = "zoomOut" /\ zoom = MIN_ZOOM

\* C4: a batch that completes appends exactly one item per valid image
\* (decodable, of image type, with non-zero natural dimensions) behind the
\* items of the scene, whatever other files it holds.
BatchAddsValidImages ==
    [][lastOp' = "uploadDone" =>
          /\ Len(items') = Len(items) + doneBatch'.valid
          /\ SubSeq(items', 1, Len(items)) = items]_vars

\* C4 witness: a batch of two files, one of them rejected, added one item
BatchWithRejectedFileDone ==
    /\ lastOp = "uploadDone"
    /\ doneBatch = [files |-> 2, valid |-> 1]
    /\ Len(items) = 1

\* C5: deleting the selected item removes that item and no other, revokes
\* its object URL and leaves the selection null.
DeleteRemovesSelected ==
    [][lastOp' = "deleteSelected" /\ HasId(items, selectedId) =>
          LET k == CHOOSE i \in 1..Len(items) : items[i].id = selectedId
          IN  /\ Len(items') = Len(items) - 1
              /\ \A i \in 1..Len(items') :
                    items'[i] = items[IF i < k THEN i ELSE i + 1]
              /\ items[k].src \in revoked'
              /\ items[k].src \notin createdUrls'
              /\ revoked' \ revoked = {items[k].src}
              /\ selectedId' = NoId]_vars

\* C5 witness: one of two items was deleted and its URL revoked
DeletedOneOfTwo ==
    /\ lastOp = "deleteSelected"
    /\ Len(items) = 1
    /\ nextId = 3
    /\ Cardinality(revoked) = 1
    /\ selectedId = NoId

\* C6: bringToFront followed by sendToBack on the same item of a scene of
\* at least two items leaves it strictly below every other item.
FrontThenBackIsLowest ==
    [][/\ lastOp = "bringForward"
       /\ lastOp' = "sendBackward"
       /\ Len(items) >= 2
       /\ HasId(items, selectedId)
       => \A i \in 1..Len(items') :
             items'[i].id # selectedId =>
                Find(items', selectedId).zIndex < items'[i].zIndex]_vars

\* C6 witness: sendBackward ran right after bringForward on one of two items
FrontThenBackDone ==
    /\ lastOp = "sendBackward"
    /\ prevOp = "bringForward"
    /\ Len(items) = 2
    /\ HasId(items, selectedId)

\* C7: an export request on an empty scene changes nothing: isExporting is
\* not set, no run starts and no download is triggered.
EmptyExportIsNoOp ==
    [][lastOp' = "export" /\ items = <<>> =>
          /\ exportsStarted' = exportsStarted
          /\ isExporting' = isExporting
          /\ exportRuns' = exportRuns
          /\ downloads' = downloads
          /\ items' = items]_vars

\* C7 witness: an export was requested on the empty scene
EmptyExportRequested ==
    /\ lastOp = "export"
    /\ items = <<>>
    /\ nextUrl = 1
    /\ exportsStarted = 0 /\ ~isExporting /\ downloads = 0

\* C8: at most one export run is in flight, isExporting is set exactly
\* while it is, and a request made meanwhile starts no run and no download.
ExportsNeverOverlap ==
    /\ [](Len(exportRuns) <= 1 /\ (isExporting <=> Len(exportRuns) = 1))
    /\ [][lastOp' = "export" /\ isExporting =>
             /\ exportRuns' = exportRuns
             /\ exportsStarted' = exportsStarted
             /\ downloads' = downloads
             /\ isExporting']_vars

\* C8 witness: an export was requested while a run had drawn an item
ExportRequestedDuringRun ==
    /\ lastOp = "export"
    /\ isExporting
    /\ Len(exportRuns) = 1
    /\ exportRuns[1].drawn # <<>>

\* the zIndex an export run holds for the item of a draw call
DrawnZ(run, d) == Find(run.ordered, d.id).zIndex

\* C9: the draw calls of an export run are in non-decreasing zIndex order.
DrawnInZOrder ==
    \A r \in 1..Len(exportRuns) :
        LET run == exportRuns[r]
        IN  \A i, j \in 1..Len(run.drawn) :
               i < j => DrawnZ(run, run.drawn[i]) <= DrawnZ(run, run.drawn[j])

\* C9 witness: the item added last was drawn first, below the other
LaterItemDrawnFirst ==
    \E r \in 1..Len(exportRuns) :
        LET run == exportRuns[r]
        IN  /\ Len(run.drawn) = 2
            /\ run.drawn[1].id > run.drawn[2].id
            /\ DrawnZ(run, run.drawn[1]) < DrawnZ(run, run.drawn[2])

\* the least and the greatest element of a set of numbers
Least(S) == CHOOSE a \in S : \A b \in S : a <= b

Greatest(S) == CHOOSE a \in S : \A b \in S : a >= b

\* the item of spec.md section 8: at (100, 100), 200x200, from a 400x200 image
IsFixture(s) ==
    /\ Len(s) = 1
    /\ s[1].x = 100 * Px /\ s[1].y = 100 * Px
    /\ s[1].width = 200 * Px /\ s[1].height = 200 * Px
    /\ s[1].naturalWidth = 400 /\ s[1].naturalHeight = 200

\* the bounding box of the items of an export run, in scene units
BoxLeft(run) == Least({b.x : b \in Range(run.ordered)})

BoxTop(run) == Least({b.y : b \in Range(run.ordered)})

BoxRight(run) == Greatest({b.x + b.width : b \in Range(run.ordered)})

BoxBottom(run) == Greatest({b.y + b.height : b \in Range(run.ordered)})

\* each image is centred on its item's box moved by (padding - minX,
\* padding - minY), and the fixture gives 264x264 with the image drawn
\* 200x100 at (32, 82)
Placement(run) ==
    /\ \A i \in 1..Len(run.drawn) :
          LET d == run.drawn[i]
              b == Find(run.ordered, d.id)
          IN  /\ RatAdd(d.offsetX, RatDiv(d.drawWidth, RatInt(2)))
                   = Rat(2 * (b.x - BoxLeft(run) + padding * Px) + b.width, 2 * Px)
              /\ RatAdd(d.offsetY, RatDiv(d.drawHeight, RatInt(2)))
                   = Rat(2 * (b.y - BoxTop(run) + padding * Px) + b.height, 2 * Px)
    /\ IsFixture(run.ordered) =>
          /\ run.exportWidth = 264 /\ run.exportHeight = 264
          /\ \A i \in 1..Len(run.drawn) :
                run.drawn[i] = [id |-> run.ordered[1].id,
                                offsetX |-> RatInt(32), offsetY |-> RatInt(82),
                                drawWidth |-> RatInt(200),
                                drawHeight |-> RatInt(100)]

\* C10 as claimed: the output is exactly the bounding box of the items plus
\* padding on every side, with the placement above.
ExportGeometryExact ==
    \A r \in 1..Len(exportRuns) :
        LET run == exportRuns[r]
        IN  /\ run.exportWidth * Px = BoxRight(run) - BoxLeft(run) + 2 * padding * Px
            /\ run.exportHeight * Px = BoxBottom(run) - BoxTop(run) + 2 * padding * Px
            /\ Placement(run)

\* the least whole number of pixels that holds u scene units
IsCeiling(n, u) == n * Px >= u /\ (n - 1) * Px < u

\* C10 as amended: the output is the bounding box of the items plus padding
\* on every side, rounded up to whole pixels, with the placement above.
ExportGeometry ==
    \A r \in 1..Len(exportRuns) :
        LET run == exportRuns[r]
        IN  /\ IsCeiling(run.exportWidth,
                         BoxRight(run) - BoxLeft(run) + 2 * padding * Px)
            /\ IsCeiling(run.exportHeight,
                         BoxBottom(run) - BoxTop(run) + 2 * padding * Px)
            /\ Placement(run)

\* C10 witness: the fixture was exported and its image drawn
FixtureDrawn ==
    \E r \in 1..Len(exportRuns) :
        IsFixture(exportRuns[r].ordered) /\ Len(exportRuns[r].drawn) = 1

\* C11: an export call that cannot obtain a drawing context, or whose
\* encoder produces no blob, ends with its promise rejected.
ExportFailureSurfaced ==
    exportOutcome.failure # "none" => exportOutcome.promise = "rejected"

\* C12: an export call in which the context is not obtained or the encoder
\* yields no blob triggers no download; a download is triggered once, by the
\* encoder's callback with a blob, after every item of the run was processed.
NoPartialFile ==
    [][/\ exportOutcome'.failure # "none" => downloads' = downloads
       /\ downloads' # downloads =>
             /\ downloads' = downloads + 1
             /\ lastOp' = "exportEncoded"
             /\ exportOutcome'.failure = "none"
             /\ \E r \in 1..Len(exportRuns) :
                   /\ exportRuns[r].phase = "encode"
                   /\ exportRuns[r].idx = Len(exportRuns[r].ordered) + 1
                   /\ exportRuns' = RemoveAt(exportRuns, r)]_vars

\* C12 witness: the encoder produced no blob for a run that had drawn an
\* item, and nothing was downloaded
EncodeFailedNoDownload ==
    /\ lastOp = "exportEncoded"
    /\ exportOutcome.failure = "encode"
    /\ exportOutcome.drawn >= 1
    /\ downloads = 0

\* the position of an item in the order of an export run
Pos(run, id) == CHOOSE i \in 1..Len(run.ordered) : run.ordered[i].id = id

\* C13: an item that fails to load during an export run is skipped: every
\* item the run has passed whose object URL is not revoked has been drawn,
\* the draw calls keep the order of the run, and the run that ends with a
\* blob triggers its download.
DecodeFailureSkipsItem ==
    /\ [](\A r \in 1..Len(exportRuns) :
            LET run == exportRuns[r]
            IN  /\ \A i \in 1..Len(run.ordered) :
                      (i < run.idx /\ run.ordered[i].src \notin revoked) =>
                         \E k \in 1..Len(run.drawn) :
                            run.drawn[k].id = run.ordered[i].id
                /\ \A k, l \in 1..Len(run.drawn) :
                      k < l => Pos(run, run.drawn[k].id) < Pos(run, run.drawn[l].id))
    /\ [][lastOp' = "exportEncoded" /\ exportOutcome'.failure = "none" =>
             downloads' = downloads + 1]_vars

\* C13 witness: a run of two items skipped one, drew the other and
\* triggered its download
RunSkippedOneItem ==
    /\ lastOp = "exportEncoded"
    /\ exportOutcome = [failure |-> "none", promise |-> "fulfilled",
                        ordered |-> 2, drawn |-> 1]
    /\ downloads >= 1

\* the id of the session that a pointer-move serves: the drag session if
\* there is one, else the resize session
ActiveId == IF dragState.id # NoId THEN dragState.id ELSE resizeState.id

\* C14: a mutation addressed to an id that is not in the scene changes
\* nothing: a pointer-move whose session names no item, a pointer-down for an
\* unknown item (which starts no session and selects nothing), and
\* bringForward, sendBackward and delete with a selection that matches no
\* item all leave the item list as it was.
MissingIdIsNoOp ==
    [][/\ (lastOp' = "mouseMove" /\ ~HasId(items, ActiveId)) => items' = items
       /\ lastOp' \in {"itemMouseDown", "resizeMouseDown"} =>
             /\ items' = items
             /\ dragState' # dragState => HasId(items, dragState'.id)
             /\ resizeState' # resizeState => HasId(items, resizeState'.id)
             /\ selectedId' # selectedId => HasId(items, selectedId')
       /\ (/\ lastOp' \in {"bringForward", "sendBackward", "deleteSelected"}
           /\ ~HasId(items, selectedId)) =>
             /\ items' = items
             /\ createdUrls' = createdUrls
             /\ revoked' = revoked]_vars

\* C14 witness: the pointer moved while the drag session named an item that
\* had been deleted, another item being in the scene
MovedWithRemovedItem ==
    /\ lastOp = "mouseMove"
    /\ dragState.id # NoId
    /\ ~HasId(items, dragState.id)
    /\ Len(items) = 1

\* the object URLs that URL.createObjectURL has returned
Created == 1..(nextUrl - 1)

\* C15: after teardown every object URL the editor created is revoked.
NoHandleLeak == ~mounted => Created \subseteq revoked

\* the object URLs of the images that a batch has accepted and not yet
\* appended, and of the images whose decode is pending
AcceptedSrcs == UNION {{it.src : it \in Range(uploads[b].newItems)} : b \in 1..Len(uploads)}

PendingSrcs == {uploads[b].src : b \in 1..Len(uploads)}

\* C16: while the editor is mounted, the object URLs created and not revoked
\* are those of the items of the scene and of the images being added.
HandlesMatchItems ==
    mounted =>
        Created \ revoked = {it.src : it \in Range(items)} \cup AcceptedSrcs \cup PendingSrcs

\* C17: zoomIn, zoomOut and resetView leave the item list, the selection and
\* the drag and resize sessions as they were.
ZoomLeavesScene ==
    [][lastOp' \in {"zoomIn", "zoomOut", "resetView"} =>
          /\ items' = items
          /\ selectedId' = selectedId
          /\ dragState' = dragState
          /\ resizeState' = resizeState]_vars

\* C17 witness: the zoom went below 1 while an item was being dragged
ZoomedOutDuringDrag ==
    /\ lastOp = "zoomOut"
    /\ zoom < ZoomUnit
    /\ Len(items) = 1
    /\ dragState.id = items[1].id
    /\ selectedId = items[1].id

\* C18: when a batch is appended, the zIndex of each new item is greater
\* than that of every item already in the scene and than that of the new
\* item before it.
NewItemsOnTop ==
    [][lastOp' = "uploadDone" =>
          \A i \in (Len(items) + 1)..Len(items') :
             /\ \A j \in 1..Len(items) : items'[i].zIndex > items[j].zIndex
             /\ i > Len(items) + 1 => items'[i].zIndex > items'[i - 1].zIndex]_vars

\* C19: a batch that accepts an image appends the accepted items behind the
\* items of the scene, in the order of their files, and selects the last of
\* them; a batch that accepts none leaves the items and the selection.
BatchAppendsInFileOrder ==
    [][lastOp' = "uploadDone" =>
          IF doneBatch'.valid = 0
          THEN items' = items /\ selectedId' = selectedId
          ELSE /\ Len(items') > Len(items)
               /\ SubSeq(items', 1, Len(items)) = items
               /\ \A i \in (Len(items) + 2)..Len(items') :
                     items'[i].src > items'[i - 1].src
               /\ selectedId' = items'[Len(items')].id]_vars

\* C19 witness: a batch of two images was appended and its second image
\* selected
BatchOfTwoAppended ==
    /\ lastOp = "uploadDone"
    /\ doneBatch.valid = 2
    /\ Len(items) = 2
    /\ items[1].src < items[2].src
    /\ selectedId = items[2].id

\* C20: the drag session and the resize session are never both active.
OneSessionAtATime == ~(dragState.id # NoId /\ resizeState.id # NoId)

\* no drag session and no resize session is active
Idle == dragState = NoDrag /\ resizeState = NoResize

\* C21: a pointer-up ends the drag session and the resize session; a
\* session starts only by a pointer-down on an item or a resize handle, and
\* a pointer-move with no session changes no item.
PointerUpEndsSession ==
    [][/\ lastOp' = "mouseUp" => Idle'
       /\ dragState' # dragState => lastOp' \in {"itemMouseDown", "mouseUp"}
       /\ resizeState' # resizeState => lastOp' \in {"resizeMouseDown", "mouseUp"}
       /\ (lastOp' = "mouseMove" /\ Idle) => items' = items]_vars

\* C21 witness: the pointer moved away after the pointer-up that ended the
\* drag of an item, which stayed where the drag had put it
MovedAfterPointerUp ==
    /\ lastOp = "mouseMove"
    /\ Idle
    /\ pointerDowns = 1
    /\ Len(items) = 1
    /\ items[1].y = 0
    /\ pointer = <<2000, 2000>>

\* C22: the selection is null or the id of an item of the scene.
SelectionValid == selectedId = NoId \/ HasId(items, selectedId)

\* C22 witness: the item selected by a pointer-down was deleted, the
\* selection cleared and the other item left in the scene
SelectedItemDeleted ==
    /\ lastOp = "deleteSelected"
    /\ selectedId = NoId
    /\ Len(items) = 1
    /\ dragState.id # NoId
    /\ ~HasId(items, dragState.id)

\* C23: an export run that started finishes: isExporting is set only while
\* a run is in flight, the run ends with a download or with a failure, and
\* isExporting is false again afterwards.
ExportFinishes ==
    /\ isExporting ~> ~isExporting
    /\ [](isExporting => exportRuns # <<>>)
    /\ [][lastOp' = "exportEncoded" =>
             /\ ~isExporting'
             /\ downloads' = downloads + 1 \/ exportOutcome'.failure # "none"]_vars

\* C23 witness: a second run is in flight after a run that ended without a
\* blob
RunStartedAfterFailedRun ==
    /\ lastOp = "export"
    /\ exportsStarted = 2
    /\ downloads = 0
    /\ isExporting
    /\ Len(exportRuns) = 1

\* C24: item ids are unique: no two items of the scene have the same id,
\* whether they come from one batch of files or from several.
UniqueIds ==
    \A i, j \in 1..Len(items) : items[i].id = items[j].id => i = j

\* the scene invariants of one item
WithinScene(it) ==
    /\ 0 <= it.x /\ 0 <= it.y
    /\ it.x + it.width <= SceneExtent /\ it.y + it.height <= SceneExtent
    /\ it.width >= MinSize /\ it.height >= MinSize

\* C25: an item that satisfies the scene invariants before a pointer-move
\* of a drag or of a resize satisfies them after it, wherever the pointer is
\* and whatever the zoom.
MovePreservesInvariants ==
    [][lastOp' = "mouseMove" =>
          \A i \in 1..Len(items) : WithinScene(items[i]) => WithinScene(items'[i])]_vars

\* C25 witness: at a zoom other than 1 a drag to a pointer position outside
\* the scene left the item against the right and the top edge.
DraggedOutsideAtZoom ==
    /\ lastOp = "mouseMove" /\ dragState.id # NoId /\ zoom # ZoomUnit
    /\ pointer = <<9000, -100>>
    /\ \E i \in 1..Len(items) :
          /\ items[i].id = dragState.id
          /\ items[i].x = SceneExtent - items[i].width /\ items[i].y = 0

PathIndependent ==
    /\ [](lastOp = "mouseMove" =>
            \A i \in 1..Len(items) :
                /\ (dragState.id # NoId /\ items[i].id = dragState.id) =>
                      /\ items[i].x = clamp(ToScene(pointer[1]) - dragState.offsetX,
                                            0, SceneExtent - items[i].width)
                      /\ items[i].y = clamp(ToScene(pointer[2]) - dragState.offsetY,
                                            0, SceneExtent - items[i].height)
                /\ (dragState.id = NoId /\ resizeState.id # NoId
                       /\ items[i].id = resizeState.id) =>
                      /\ items[i].width =
                            clamp(resizeState.startWidth
                                      + (ToScene(pointer[1]) - resizeState.originX),
                                  MinSize, SceneExtent - items[i].x)
                      /\ items[i].height =
                            clamp(resizeState.startHeight
                                      + (ToScene(pointer[2]) - resizeState.originY),
                                  MinSize, SceneExtent - items[i].y))
    /\ [][(lastOp = "mouseMove" /\ lastOp' = "mouseMove" /\ pointer' = pointer) =>
             items' = items]_vars

\* C27 witness: after an earlier pointer-move of the session the pointer
\* came back to the position of the pointer-down, and the item is back where
\* it was grabbed, away from the edges.
DraggedBackToGrab ==
    /\ lastOp = "mouseMove" /\ dragState.id # NoId /\ grab.moves = MaxMoves
    /\ pointer = grab.p /\ zoom = grab.zoom
    /\ \E i \in 1..Len(items) :
          /\ items[i].id = dragState.id
          /\ items[i].x = grab.x /\ items[i].y = grab.y
          /\ items[i].x > 0 /\ items[i].y > 0

\* pointer coordinate c on the screen, in scene units at zoom z
SceneAt(c, z) == (c * Px * ZoomUnit) \div z

\* C28: while a resize session is active (and no drag session), a
\* pointer-move sets the item's width to
\* clamp(startWidth + (pointerSceneX - anchorX), MIN_ITEM_SIZE, SCENE_EXTENT - x)
\* and its height likewise, where startWidth, startHeight are the item's
\* size at the pointer-down on the handle and the anchor is the pointer's
\* scene position at that pointer-down.
ResizeFromStartSize ==
    [][(lastOp' = "mouseMove" /\ dragState.id = NoId /\ resizeState.id # NoId) =>
          \A i \in 1..Len(items) :
              items[i].id = resizeState.id =>
                  /\ items'[i].width =
                        clamp(grab.width + (ToScene(pointer'[1]) - SceneAt(grab.hp[1], grab.hzoom)),
                              MinSize, SceneExtent - items[i].x)
                  /\ items'[i].height =
                        clamp(grab.height + (ToScene(pointer'[2]) - SceneAt(grab.hp[2], grab.hzoom)),
                              MinSize, SceneExtent - items[i].y)]_vars

\* C28 witness: the second pointer-move of a resize session left the item
\* wider than at the pointer-down, short of the edge of the scene, and at
\* the minimum height.
ResizedWiderAndFlat ==
    /\ lastOp = "mouseMove" /\ dragState.id = NoId /\ resizeState.id # NoId
    /\ grab.moves = MaxMoves
    /\ \E i \in 1..Len(items) :
          /\ items[i].id = resizeState.id
          /\ items[i].width > grab.width
          /\ items[i].x + items[i].width < SceneExtent
          /\ items[i].height = MinSize /\ grab.height > MinSize

\* item it with its position, or its size, taken from item to
WithPosition(it, to) == [it EXCEPT !.x = to.x, !.y = to.y]

WithSize(it, to) == [it EXCEPT !.width = to.width, !.height = to.height]

\* C29: a pointer-move of a drag session changes only x and y of the item of
\* the session, a pointer-move of a resize session changes only width and
\* height of the item of the session, and a pointer-move outside a session
\* changes no item; none changes the number of items, the selection or the
\* zoom.
PointerMoveFrame ==
    [][lastOp' = "mouseMove" =>
          /\ Len(items') = Len(items) /\ zoom' = zoom /\ selectedId' = selectedId
          /\ \A i \in 1..Len(items) :
                IF dragState.id # NoId /\ items[i].id = dragState.id
                THEN items'[i] = WithPosition(items[i], items'[i])
                ELSE IF dragState.id = NoId /\ resizeState.id # NoId
                        /\ items[i].id = resizeState.id
                THEN items'[i] = WithSize(items[i], items'[i])
                ELSE items'[i] = items[i]]_vars

\* C29 witness: with two items in the scene a pointer-move of a resize
\* session changed the size of the one and left the other as it was added.
ResizedOneOfTwo ==
    /\ lastOp = "mouseMove" /\ dragState.id = NoId /\ resizeState.id # NoId
    /\ Len(items) = 2
    /\ \E i \in 1..2 :
          /\ items[i].id = resizeState.id
          /\ items[i].width # grab.width
          /\ items[i].x = SceneExtent \div 2 - grab.width \div 2

\* the zIndex values of the items of s
ZIndexes(s) == {s[i].zIndex : i \in 1..Len(s)}

\* C30: bringToFront sets the zIndex of the selected item to the greatest
\* zIndex of the items plus one, and sendToBack sets it to the least zIndex
\* of the items minus one, whatever the zIndex values are, negative ones
\* included.
ReorderByExtremes ==
    [][/\ (lastOp' = "bringForward" /\ HasId(items, selectedId)) =>
             Find(items', selectedId).zIndex = Greatest(ZIndexes(items)) + 1
       /\ (lastOp' = "sendBackward" /\ HasId(items, selectedId)) =>
             Find(items', selectedId).zIndex = Least(ZIndexes(items)) - 1]_vars

\* item it with the zIndex of item to
WithZIndex(it, to) == [it EXCEPT !.zIndex = to.zIndex]

\* C31: bringToFront and sendToBack change only the zIndex of the selected
\* item: its geometry, every other item, the selection and the number of
\* items are unchanged; afterwards the zIndex of the selected item is
\* strictly greater (bringToFront) or strictly smaller (sendToBack) than
\* that of every other item.
ReorderFrame ==
    [][lastOp' \in {"bringForward", "sendBackward"} =>
          /\ Len(items') = Len(items) /\ selectedId' = selectedId /\ zoom' = zoom
          /\ \A i \in 1..Len(items) :
                IF items[i].id = selectedId
                THEN /\ items'[i] = WithZIndex(items[i], items'[i])
                     /\ \A j \in 1..Len(items) :
                           items[j].id # selectedId =>
                               IF lastOp' = "bringForward"
                               THEN items'[i].zIndex > items'[j].zIndex
                               ELSE items'[i].zIndex < items'[j].zIndex
                ELSE items'[i] = items[i]]_vars

\* C31 witness: with two items in the scene the one that was below the other
\* was brought to the front.
LowerOfTwoBroughtForward ==
    /\ lastOp = "bringForward" /\ Len(items) = 2
    /\ items[1].id = selectedId
    /\ items[1].zIndex > items[2].zIndex

\* C32: a pointer-down on the empty background of the scene sets the
\* selection to null and changes neither the items, the zoom nor the
\* sessions; a pointer-down on the body or on the resize handle of an item
\* selects the item of the session it starts and never clears the selection.
PointerDownSelects ==
    [][/\ lastOp' = "backgroundMouseDown" =>
             /\ selectedId' = NoId
             /\ items' = items /\ zoom' = zoom
             /\ dragState' = dragState /\ resizeState' = resizeState
       /\ lastOp' = "itemMouseDown" =>
             /\ \/ selectedId' = dragState'.id /\ HasId(items, selectedId')
                \/ selectedId' = selectedId /\ dragState' = dragState
             /\ selectedId # NoId => selectedId' # NoId
             /\ items' = items
       /\ lastOp' = "resizeMouseDown" =>
             /\ \/ selectedId' = resizeState'.id /\ HasId(items, selectedId')
                \/ selectedId' = selectedId /\ resizeState' = resizeState
             /\ selectedId # NoId => selectedId' # NoId
             /\ items' = items]_vars

\* C32 witness: with two items in the scene and no session active a
\* pointer-down on the background left nothing selected.
BackgroundPressedWhileIdle ==
    /\ lastOp = "backgroundMouseDown" /\ Idle
    /\ selectedId = NoId /\ Len(items) = 2

\* C33: focusItem(id) centers the item at every zoom: the scroll offset it
\* computes satisfies scrollLeft + viewportWidth / 2 = (x + width / 2) * zoom
\* and scrollTop + viewportHeight / 2 = (y + height / 2) * zoom, with the
\* pixel size of the container as viewport; it selects the item and leaves
\* the items unchanged.
FocusCenters ==
    [][(lastOp' = "layerSelect" /\ HasId(items, selectedId')) =>
          LET item == Find(items, selectedId')
              z == Rat(zoom, ZoomUnit)
          IN  /\ RatAdd(scroll'.left, Rat(ClientWidth, 2)) = RatMul(CenterX(item), z)
              /\ RatAdd(scroll'.top, Rat(ClientHeight, 2)) = RatMul(CenterY(item), z)
              /\ items' = items]_vars

\* the draw call of the run and the item it draws, as the run ordered it
FitsItem(run, d) ==
    LET b == Find(run.ordered, d.id)
        boxLeft == Pixels(padding * Px + b.x - run.minX)
        boxTop == Pixels(padding * Px + b.y - run.minY)
        boxRight == RatAdd(boxLeft, Pixels(b.width))
        boxBottom == RatAdd(boxTop, Pixels(b.height))
        right == RatAdd(d.offsetX, d.drawWidth)
        bottom == RatAdd(d.offsetY, d.drawHeight)
    IN  /\ RatMul(d.drawWidth, RatInt(b.naturalHeight))
              = RatMul(d.drawHeight, RatInt(b.naturalWidth))
        /\ RatLeq(d.drawWidth, Pixels(b.width))
        /\ RatLeq(d.drawHeight, Pixels(b.height))
        /\ d.drawWidth = Pixels(b.width) \/ d.drawHeight = Pixels(b.height)
        /\ RatSub(d.offsetX, boxLeft) = RatSub(boxRight, right)
        /\ RatSub(d.offsetY, boxTop) = RatSub(boxBottom, bottom)
        /\ RatLeq(RatInt(padding), d.offsetX)
        /\ RatLeq(RatInt(padding), d.offsetY)
        /\ RatLeq(right, RatInt(run.exportWidth - padding))
        /\ RatLeq(bottom, RatInt(run.exportHeight - padding))

\* C34: export uses contain fit: every drawn rectangle has the aspect ratio
\* of its source, is no wider and no higher than the item's box and as wide
\* or as high as it, is centred in the item's box, and lies inside the
\* output canvas at least the padding away from its edges.
ContainFit ==
    \A r \in 1..Len(exportRuns) :
        \A i \in 1..Len(exportRuns[r].drawn) :
            FitsItem(exportRuns[r], exportRuns[r].drawn[i])

\* C34 witness: an item resized to another aspect ratio than its source was
\* drawn as wide as its box and less high.
LetterboxedDrawn ==
    \E r \in 1..Len(exportRuns) :
        \E i \in 1..Len(exportRuns[r].drawn) :
            LET d == exportRuns[r].drawn[i]
                b == Find(exportRuns[r].ordered, d.id)
            IN  /\ d.drawWidth = Pixels(b.width)
                /\ d.drawHeight # Pixels(b.height)
                /\ ~IsFixture(exportRuns[r].ordered)

\* C35: an item created from an image of natural size (nw, nh) is
\* min(nw, 320) wide, nh * width / nw high, and centred on the centre of the
\* scene: x + width / 2 = 2000 and y + height / 2 = 2000.
InitialPlacement ==
    [][lastOp' = "uploadDone" =>
          \A i \in (Len(items) + 1)..Len(items') :
              LET it == items'[i]
              IN  /\ it.width = Min2(it.naturalWidth, 320) * Px
                  /\ it.height * it.naturalWidth = it.naturalHeight * it.width
                  /\ 2 * it.x + it.width = CANVAS_DIMENSION * Px
                  /\ 2 * it.y + it.height = CANVAS_DIMENSION * Px]_vars

\* C35 witness: an image wider than 320 pixels whose scaled height is not a
\* whole number of pixels was added as the second item.
ScaledImagePlaced ==
    /\ lastOp = "uploadDone" /\ Len(items) = 2
    /\ items[2].naturalWidth = 640 /\ items[2].width = 320 * Px
    /\ items[2].height % Px # 0

\* C36: the pointer-move and pointer-up listeners of the window are
\* registered once while the editor is mounted and not at all after its
\* teardown, and after the teardown no pointer event changes an item or a
\* session.
ListenersScoped ==
    /\ [](listeners = IF mounted THEN 1 ELSE 0)
    /\ [][~mounted =>
             /\ lastOp' \notin {"mouseMove", "mouseUp"}
             /\ items' = items
             /\ dragState' = dragState /\ resizeState' = resizeState]_vars

\* C36 witness: the editor was torn down while a drag session was active
\* and the item away from where it was grabbed.
TornDownWhileDragging ==
    /\ ~mounted /\ lastOp = "teardown" /\ dragState.id # NoId
    /\ \E i \in 1..Len(items) :
          items[i].id = dragState.id /\ items[i].x # grab.x

\* s is in the order of its zIndex values
InZOrder(s) == \A i \in 1..(Len(s) - 1) : s[i].zIndex <= s[i + 1].zIndex

\* run b continues run a: the same items in the same order and the same
\* output, and the draw calls of a followed by at most one more, of the item
\* that a was about to load, as a holds it
Continues(a, b) ==
    /\ b.ordered = a.ordered
    /\ b.minX = a.minX /\ b.minY = a.minY
    /\ b.exportWidth = a.exportWidth /\ b.exportHeight = a.exportHeight
    /\ \/ b.drawn = a.drawn
       \/ /\ a.idx <= Len(a.ordered)
          /\ b.drawn = Append(a.drawn, DrawCall(a.ordered[a.idx], a.minX, a.minY))

NoLostUpdates ==
    [][lastOp' = "uploadDone" =>
          /\ Len(items') = Len(items) + doneBatch'.valid
          /\ \A i \in 1..Len(items) : items'[i] = items[i]
          /\ \A i \in (Len(items) + 1)..Len(items') :
                ~HasId(items, items'[i].id)
          /\ \A i \in 1..Len(items') : items'[i].src \notin revoked']_vars

\* C38 witness: the batch that completed had started before the batch whose
\* item it found in the scene, and that item had been moved or resized
\* since it was added.
EarlierBatchCompletedLater ==
    /\ lastOp = "uploadDone" /\ Len(items) = 2
    /\ items[2].src < items[1].src
    /\ \/ 2 * items[1].x + items[1].width # SceneExtent
       \/ items[1].width # Min2(items[1].naturalWidth, MaxInitialWidth) * Px

\* C39: training status polling cannot get stuck: while isProcessing is set
\* the poll timer is running or a request is pending, whatever statuses the
\* server returns.
PollingNeverStuck ==
    training.isProcessing =>
        training.pollingInterval \/ training.polls > 0 \/ training.post

====
